---- MODULE Spec2Model ----
(***************************************************************************)
(* A model of processingpack/chipcollections.py: the ChipSeries family,    *)
(* ChipQuant, Assay / TurnoverAssay and AssaySeries.                       *)
(*                                                                         *)
(* Python's None is the empty sequence <<>> and an object reference is a   *)
(* one-element sequence <<obj>>, so that both compare in TLC.              *)
(* An exception is the name of its class in the "outcome" of the last call *)
(* ("ok" when the call returned normally).                                 *)
(***************************************************************************)
EXTENDS Integers, Sequences, FiniteSets, TLC

VARIABLES quant, qlast, fs, series, slast, assay, tlast, aseries, args, alast

varsQ == <<quant, qlast>>

varsS == <<fs, series, slast>>

varsT == <<assay, tlast>>

varsA == <<aseries, args, alast>>

vars == <<quant, qlast, fs, series, slast, assay, tlast, aseries, args, alast>>

None == <<>>

Some(x) == <<x>>

(***************************************************************************)
(* Bounds of the model.                                                    *)
(***************************************************************************)
\* ChipQuant.load_file calls in one behaviour
MaxLoads == 2

\* files in the directory a series is loaded from
MaxFiles == 3

\* quants added to one assay
MaxAssayQuants == 2

\* length of the descriptions and paths lists given to an AssaySeries
MaxArgs == 2

(***************************************************************************)
(* The ChipImage collaborator (chip.py): what chipcollections.py asks of   *)
(* it.  A chip image records the path it was read from, the metadata it    *)
(* was given and which steps were applied to it.                           *)
(***************************************************************************)
Paths == {"p1", "p2", "bad"}

ValidFeatures == {"button", "chamber", "all"}

Features == ValidFeatures \cup {"bogus"}

ChipImage(path, meta) ==
    [path |-> path, meta |-> meta, stamped |-> FALSE,
     buttons |-> FALSE, chambers |-> FALSE, stamps |-> FALSE]

stamp(c) == [c EXCEPT !.stamped = TRUE, !.stamps = TRUE]

findButtons(c) == [c EXCEPT !.buttons = TRUE]

findChambers(c) == [c EXCEPT !.chambers = TRUE]

\* reference.mapto(target, features = f): the target gets the reference's
\* positions of the named features
mapto(c, f) ==
    [c EXCEPT !.buttons = c.buttons \/ f \in {"button", "all"},
              !.chambers = c.chambers \/ f \in {"chamber", "all"}]

\* what mapto may do with a feature name: an unknown name is not specified
MaptoOutcomes(f) == IF f \in ValidFeatures THEN {"ok"} ELSE {"ok", "Error"}

\* A table has columns (a column name is a sequence of pieces of text) and
\* rows; of a row the model keeps its index value, the chip it is of (src,
\* at) and the columns in which it holds a value (the others are null).
ChipCols == << <<"id">>, <<"summed">> >>

\* the feature indexes a chip's table has rows for
ChamberIdx == {1, 2}

ButtonIdx == {2, 3}

FeatureIdx(c) ==
    (IF c.chambers THEN ChamberIdx ELSE {}) \cup (IF c.buttons THEN ButtonIdx ELSE {})

Range(f) == {f[i] : i \in DOMAIN f}

\* chip.summarize(): the table of one chip image, one row per feature
ChipTable(c) ==
    [cols |-> ChipCols,
     rows |-> {[idx |-> i, src |-> Some(c.path), at |-> c.meta,
                filled |-> Range(ChipCols)] : i \in FeatureIdx(c)}]

(***************************************************************************)
(* ChipQuant                                                               *)
(***************************************************************************)
\* ChipQuant.__init__
NewChipQuant(description) ==
    [cls |-> "ChipQuant", description |-> description, chip |-> None,
     processed |-> FALSE]

NoCallQ ==
    [op |-> "init", ref |-> FALSE, feat |-> "button", outcome |-> "ok",
     pre |-> NewChipQuant(<<"Button_Quant">>), table |-> None]

\* ChipQuant.load_file
QuantLoadFile(q, path) == [q EXCEPT !.chip = Some(ChipImage(path, None))]

\* ChipQuant.process without a reference: the feature finding of lines 510-518
QuantFind(c, f) ==
    CASE f = "button" -> findButtons(c)
      [] f = "chamber" -> findChambers(c)
      [] f = "all" -> findChambers(findButtons(c))
      [] OTHER -> c

\* QuantProcess with the flag set before the feature name is looked at
QuantProcessFlagFirst(q, hasRef, f, mo) ==
    IF q.chip = None
    THEN [outcome |-> "AttributeError", q |-> q]
    ELSE LET st == stamp(q.chip[1]) IN
         IF ~hasRef /\ f \notin ValidFeatures
         THEN [outcome |-> "ValueError",
               q |-> [q EXCEPT !.chip = Some(st), !.processed = TRUE]]
         ELSE IF hasRef /\ mo # "ok"
              THEN [outcome |-> "Error", q |-> [q EXCEPT !.chip = Some(st)]]
              ELSE [outcome |-> "ok",
                    q |-> [q EXCEPT !.chip = Some(IF hasRef THEN mapto(st, f)
                                                  ELSE QuantFind(st, f)),
                                    !.processed = TRUE]]

\* ChipQuant.process: the outcome and the ChipQuant it leaves, given what
\* mapto does (mo) when a reference is passed
QuantProcess(q, hasRef, f, mo) ==
    IF q.chip = None
    THEN [outcome |-> "AttributeError", q |-> q]
    ELSE LET st == stamp(q.chip[1]) IN
         IF ~hasRef
         THEN IF f \in ValidFeatures
              THEN [outcome |-> "ok",
                    q |-> [q EXCEPT !.chip = Some(QuantFind(st, f)),
                                    !.processed = TRUE]]
              ELSE [outcome |-> "ValueError",
                    q |-> [q EXCEPT !.chip = Some(st)]]
         ELSE IF mo = "ok"
              THEN [outcome |-> "ok",
                    q |-> [q EXCEPT !.chip = Some(mapto(st, f)),
                                    !.processed = TRUE]]
              ELSE [outcome |-> "Error",
                    q |-> [q EXCEPT !.chip = Some(st)]]

\* QuantSummarize gated on a chip being loaded instead of on the flag
QuantSummarizeOnLoaded(q) ==
    IF q.chip # None
    THEN [outcome |-> "ok", table |-> Some(ChipTable(q.chip[1]))]
    ELSE [outcome |-> "ValueError", table |-> None]

\* ChipQuant.summarize
QuantSummarize(q) ==
    IF q.processed
    THEN IF q.chip = None
         THEN [outcome |-> "AttributeError", table |-> None]
         ELSE [outcome |-> "ok", table |-> Some(ChipTable(q.chip[1]))]
    ELSE [outcome |-> "ValueError", table |-> None]

InitQ ==
    /\ quant = [q |-> NewChipQuant(<<"Button_Quant">>), loads |-> 0]
    /\ qlast = NoCallQ

LoadFile ==
    /\ quant.loads < MaxLoads
    /\ \E p \in Paths :
         /\ quant' = [q |-> QuantLoadFile(quant.q, p), loads |-> quant.loads + 1]
         /\ qlast' = [NoCallQ EXCEPT !.op = "load_file", !.pre = quant.q]
    /\ UNCHANGED <<varsS, varsT, varsA>>

Process ==
    \E hasRef \in BOOLEAN, f \in Features :
      \E mo \in MaptoOutcomes(f) :
        LET r == QuantProcess(quant.q, hasRef, f, mo) IN
        /\ quant' = [quant EXCEPT !.q = r.q]
        /\ qlast' = [NoCallQ EXCEPT !.op = "process", !.ref = hasRef, !.feat = f,
                                    !.outcome = r.outcome, !.pre = quant.q]
        /\ UNCHANGED <<varsS, varsT, varsA>>

Summarize ==
    LET r == QuantSummarize(quant.q) IN
    /\ quant' = quant
    /\ qlast' = [NoCallQ EXCEPT !.op = "summarize", !.outcome = r.outcome,
                                !.pre = quant.q, !.table = r.table]
    /\ UNCHANGED <<varsS, varsT, varsA>>

NextQ == LoadFile \/ Process \/ Summarize

(***************************************************************************)
(* Claims about ChipQuant, checked under SpecQuant.                        *)
(***************************************************************************)
\* C1: after any sequence of load_file, process and summarize calls,
\* summarize() raises its ValueError exactly when processed is False, and
\* when processed is True it returns the summary table of the chip held.
C1_SummarizeGate ==
    qlast.op = "summarize" =>
        /\ (qlast.outcome = "ValueError") <=> ~quant.q.processed
        /\ quant.q.processed =>
               /\ qlast.outcome = "ok"
               /\ quant.q.chip # None
               /\ qlast.table = Some(ChipTable(quant.q.chip[1]))

\* C1 witness: summarize has returned a table after a load and a process
C1_Witness ==
    /\ qlast.op = "summarize"
    /\ quant.q.processed
    /\ qlast.table # None

\* C8 as stated: process without a reference and with a feature name other
\* than 'button', 'chamber' or 'all' raises ValueError and leaves processed
\* as it was; a process call that returns normally leaves processed True.
C8_AsStated ==
    qlast.op = "process" =>
        /\ (~qlast.ref /\ qlast.feat \notin ValidFeatures) =>
               /\ qlast.outcome = "ValueError"
               /\ quant.q.processed = qlast.pre.processed
        /\ qlast.outcome = "ok" => quant.q.processed

\* C8 amended: on a ChipQuant that holds a loaded chip, process without a
\* reference and with a feature name other than 'button', 'chamber' or 'all'
\* raises ValueError; with or without a chip that call leaves processed as it
\* was; a process call that returns normally leaves processed True.
C8_ProcessFlag ==
    qlast.op = "process" =>
        /\ (~qlast.ref /\ qlast.feat \notin ValidFeatures) =>
               /\ qlast.pre.chip # None => qlast.outcome = "ValueError"
               /\ qlast.outcome # "ok"
               /\ quant.q.processed = qlast.pre.processed
        /\ qlast.outcome = "ok" => quant.q.processed

\* C8 witness: a loaded, unprocessed ChipQuant was processed with a bad
\* feature name and no reference
C8_Witness ==
    /\ qlast.op = "process"
    /\ ~qlast.ref
    /\ qlast.feat \notin ValidFeatures
    /\ qlast.pre.chip # None
    /\ ~qlast.pre.processed
    /\ qlast.outcome = "ValueError"
(***************************************************************************)
(* Image files of a directory.  A file name is stem.tif; of the stem the   *)
(* model keeps which of the words the code looks for it contains, and the  *)
(* text after its last underscore as a sequence of characters.             *)
(***************************************************************************)
TagSets ==
    {{}, {"StitchedImg"}, {"StitchedImg", "ChamberBorders"},
     {"StitchedImg", "ChamberBorders", "Summary"}}

Lasts == {<<"1">>, <<"2">>, <<"5">>, <<"0", "1">>, <<"x">>}

Files == [tags : TagSets, last : Lasts]

Dirs == {d \in SUBSET Files : Cardinality(d) <= MaxFiles}

Digits == <<"0", "1", "2", "3", "4", "5", "6", "7", "8", "9">>

IsDigit(c) == \E i \in DOMAIN Digits : Digits[i] = c

DigitVal(c) == (CHOOSE i \in DOMAIN Digits : Digits[i] = c) - 1

\* whether int(text) succeeds
IsInt(text) == text # <<>> /\ \A i \in DOMAIN text : IsDigit(text[i])

RECURSIVE IntOf(_)
\* int(text) for a text of decimal digits
IntOf(text) ==
    IF text = <<>> THEN 0
    ELSE 10 * IntOf(SubSeq(text, 1, Len(text) - 1)) + DigitVal(text[Len(text)])

\* the glob patterns tried: the default '*StitchedImg*.tif' (no custom_glob)
\* and the custom pattern '*.tif'
Globs == {None, Some("*.tif")}

\* r.glob(glob_pattern), per file
GlobMatches(f, custom_glob) ==
    IF custom_glob # None THEN TRUE ELSE "StitchedImg" \in f.tags

\* KeptFile without the exception for summary files
KeptFileNoSummary(f) == ~("ChamberBorders" \in f.tags)

\* the filter of line 95: not 'ChamberBorders' in stem or 'Summary' in stem
KeptFile(f) == ~("ChamberBorders" \in f.tags) \/ "Summary" \in f.tags

\* img_files of load_files
ImgFiles(dir, custom_glob) ==
    {f \in dir : GlobMatches(f, custom_glob) /\ KeptFile(f)}

\* Path(root) for the roots of the model: absolute or relative, and its parts
RootPath(root) ==
    CASE root = "p1" -> [abs |-> TRUE, parts |-> <<"data", "p1">>]
      [] root = "p2" -> [abs |-> FALSE, parts |-> <<"runs", "p2">>]
      [] root = "bad" -> [abs |-> FALSE, parts |-> <<"bad">>]
      [] OTHER -> [abs |-> TRUE, parts |-> <<root>>]

\* a path that r.glob yields: the root's parts and the file
GlobPath(r, f) == [abs |-> r.abs, dirs |-> r.parts, file |-> f]

\* Path(os.path.join(r.parent, img)) of line 96: img itself when it is
\* absolute, else img put below the parent of the root
ImgPath(root, f) ==
    LET r == RootPath(root)
        img == GlobPath(r, f)
    IN  IF img.abs THEN img
        ELSE [img EXCEPT !.dirs = SubSeq(r.parts, 1, Len(r.parts) - 1) \o img.dirs]

\* the dicts that the comprehension of line 97 can build from files whose
\* last words are integers: one file per key, any of those with that key
Records(img) ==
    LET keys == {IntOf(f.last) : f \in img} IN
    {r \in [keys -> img] : \A k \in keys : IntOf(r[k].last) = k}

(***************************************************************************)
(* The ChipSeries family                                                   *)
(***************************************************************************)
SeriesClasses == {"ChipSeries", "StandardSeries", "Timecourse", "Titration"}

\* isinstance(c, ChipSeries)
IsChipSeries(obj) == obj.cls \in SeriesClasses

\* the constructors: ChipSeries.__init__ (inherited by Titration) reads the
\* undefined name description; StandardSeries and Timecourse set chips = None
NewSeries(cls, description) ==
    IF cls \in {"ChipSeries", "Titration"}
    THEN [outcome |-> "NameError", obj |-> None]
    ELSE [outcome |-> "ok",
          obj |-> Some([cls |-> cls, description |-> description,
                        series_indexer |-> IF cls = "StandardSeries"
                                           THEN "concentration_uM" ELSE "time_s",
                        chips |-> None, series_root |-> None])]

\* ChipSeries.load_files; rec is the dict of line 97
SeriesLoadFiles(s, root, dir, indexes, custom_glob, rec) ==
    LET s1 == [s EXCEPT !.series_root = Some(root)] IN
    IF indexes
    THEN [outcome |-> "ok", s |-> s1]
    ELSE IF \E f \in ImgFiles(dir, custom_glob) : ~IsInt(f.last)
         THEN [outcome |-> "ValueError", s |-> s1]
         ELSE [outcome |-> "ok",
               s |-> [s1 EXCEPT !.chips =
                         Some([k \in DOMAIN rec |->
                                  ChipImage(ImgPath(root, rec[k]), Some(k))])]]

\* the choices of rec for a load_files call
RecordChoices(dir, indexes, custom_glob) ==
    IF indexes \/ \E f \in ImgFiles(dir, custom_glob) : ~IsInt(f.last)
    THEN {<<>>}
    ELSE Records(ImgFiles(dir, custom_glob))

Max(S) == CHOOSE x \in S : \A y \in S : y <= x

Min(S) == CHOOSE x \in S : \A y \in S : x <= y

\* get_hs_key returning the smallest key
get_hs_key_min(chips) == Min(DOMAIN chips)

\* StandardSeries.get_hs_key
get_hs_key(chips) == Max(DOMAIN chips)

\* the keys map_from_hs iterates over: all_keys - reference_key
MapFromHsKeys(chips) == DOMAIN chips \ {get_hs_key(chips)}

\* the orders in which a set can be iterated
Orders(S) ==
    {o \in [1..Cardinality(S) -> S] : \A i, j \in DOMAIN o : o[i] = o[j] => i = j}

RECURSIVE MapLoop(_, _, _, _)
\* the loop of map_from_hs and of map_from: stamp each chip, then map onto it
MapLoop(chips, features, order, log) ==
    IF order = <<>>
    THEN [chips |-> chips, log |-> log]
    ELSE LET k == Head(order) IN
         MapLoop([chips EXCEPT ![k] = mapto(stamp(chips[k]), features)],
                 features, Tail(order),
                 log \o <<[op |-> "stamp", key |-> k], [op |-> "mapto", key |-> k]>>)

\* StandardSeries.process (with map_from_hs), iterating in the given order
StandardProcess(s, featuretype, order) ==
    IF s.chips = None
    THEN [outcome |-> "AttributeError", s |-> s, log |-> <<>>]
    ELSE IF DOMAIN s.chips[1] = {}
         THEN [outcome |-> "ValueError", s |-> s, log |-> <<>>]
         ELSE LET chips == s.chips[1]
                  hk == get_hs_key(chips)
                  chips1 == [chips EXCEPT ![hk] = findChambers(stamp(chips[hk]))]
                  r == MapLoop(chips1, featuretype, order,
                               <<[op |-> "stamp", key |-> hk],
                                 [op |-> "findChambers", key |-> hk]>>)
              IN [outcome |-> "ok", s |-> [s EXCEPT !.chips = Some(r.chips)],
                  log |-> r.log]

\* the iteration orders of a StandardSeries.process call
StandardOrders(s) ==
    IF s.chips = None \/ DOMAIN s.chips[1] = {}
    THEN {<<>>}
    ELSE Orders(MapFromHsKeys(s.chips[1]))

\* Timecourse.process (ChipSeries.map_from), iterating in the given order
TimecourseProcess(s, featuretype, order) ==
    IF s.chips = None
    THEN [outcome |-> "AttributeError", s |-> s, log |-> <<>>]
    ELSE LET r == MapLoop(s.chips[1], featuretype, order, <<>>) IN
         [outcome |-> "ok", s |-> [s EXCEPT !.chips = Some(r.chips)],
          log |-> r.log]

\* the iteration orders of a Timecourse.process call
TimecourseOrders(s) ==
    IF s.chips = None THEN {<<>>} ELSE Orders(DOMAIN s.chips[1])

\* the identifiers handed to add_file: one that load_files gives as well,
\* and one that it does not
AddIds == {1, 9}

\* the image an add_file call names: Path(path)
AddSource == GlobPath(RootPath("p1"), [tags |-> {"StitchedImg"}, last |-> <<"9">>])

\* ChipSeries.add_file (lines 66-68): item assignment on self.chips
SeriesAddFile(s, identifier, source) ==
    IF s.chips = None
    THEN [outcome |-> "TypeError", s |-> s]
    ELSE [outcome |-> "ok",
          s |-> [s EXCEPT !.chips =
                    Some([k \in DOMAIN s.chips[1] \cup {identifier} |->
                             IF k = identifier
                             THEN ChipImage(source, Some(identifier))
                             ELSE s.chips[1][k]])]]

NoCallS ==
    [op |-> "init", outcome |-> "ok", indexes |-> FALSE, glob |-> None,
     log |-> <<>>, id |-> 0, pre |-> None]

InitS ==
    /\ fs \in Dirs
    /\ series = None
    /\ slast = NoCallS

IdleS ==
    /\ fs = {}
    /\ series = None
    /\ slast = NoCallS

Construct ==
    \E cls \in SeriesClasses :
      LET r == NewSeries(cls, "s") IN
      /\ series' = IF r.outcome = "ok" THEN r.obj ELSE series
      /\ slast' = [NoCallS EXCEPT !.op = "new", !.outcome = r.outcome]
      /\ fs' = fs
      /\ UNCHANGED <<varsQ, varsT, varsA>>

SLoadFiles ==
    /\ series # None
    /\ \E indexes \in BOOLEAN, g \in Globs :
         \E rec \in RecordChoices(fs, indexes, g) :
           LET r == SeriesLoadFiles(series[1], "root", fs, indexes, g, rec) IN
           /\ series' = Some(r.s)
           /\ slast' = [NoCallS EXCEPT !.op = "load_files", !.outcome = r.outcome,
                                       !.indexes = indexes, !.glob = g]
           /\ fs' = fs
           /\ UNCHANGED <<varsQ, varsT, varsA>>

SProcess ==
    /\ series # None
    /\ series[1].cls = "StandardSeries"
    /\ \E order \in StandardOrders(series[1]) :
         LET r == StandardProcess(series[1], "chamber", order) IN
         /\ series' = Some(r.s)
         /\ slast' = [NoCallS EXCEPT !.op = "process", !.outcome = r.outcome,
                                     !.log = r.log]
         /\ fs' = fs
         /\ UNCHANGED <<varsQ, varsT, varsA>>

TProcess ==
    /\ series # None
    /\ series[1].cls = "Timecourse"
    /\ \E order \in TimecourseOrders(series[1]) :
         LET r == TimecourseProcess(series[1], "chamber", order) IN
         /\ series' = Some(r.s)
         /\ slast' = [NoCallS EXCEPT !.op = "process", !.outcome = r.outcome,
                                     !.log = r.log]
         /\ fs' = fs
         /\ UNCHANGED <<varsQ, varsT, varsA>>

(***************************************************************************)
(* Tables (pandas), as far as merge_summarize and summarize use them       *)
(***************************************************************************)
\* desc.replace(' ', '_') on a description given as pieces of text
ReplaceSpaces(desc) == [i \in DOMAIN desc |-> IF desc[i] = " " THEN "_" ELSE desc[i]]

\* the suffix '_{}'.format(desc.replace(' ', '_'))
QuantSuffix(desc) == <<"_">> \o ReplaceSpaces(desc)

\* DataFrame.add_suffix
add_suffix(t, sfx) ==
    [cols |-> [i \in DOMAIN t.cols |-> t.cols[i] \o sfx],
     rows |-> {[r EXCEPT !.filled = {c \o sfx : c \in r.filled}] : r \in t.rows}]

\* DataFrame.drop(columns = [col])
drop(t, col) ==
    [cols |-> SelectSeq(t.cols, LAMBDA c : c # col),
     rows |-> {[r EXCEPT !.filled = r.filled \ {col}] : r \in t.rows}]

RECURSIVE ConcatCols(_)
ConcatCols(ts) == IF ts = <<>> THEN <<>> ELSE Head(ts).cols \o ConcatCols(Tail(ts))

\* left.join(rights, how = 'left'): the rows of left, each with the values of
\* the rows of the right tables that have its index value
join_left(left, rights) ==
    [cols |-> left.cols \o ConcatCols(rights),
     rows |-> {[r EXCEPT !.filled =
                   r.filled \cup UNION {q.filled : q \in
                       UNION {{x \in rights[i].rows : x.idx = r.idx} : i \in DOMAIN rights}}]
               : r \in left.rows}]

\* ChipSeries.summarize: every chip's table with the series index added,
\* concatenated (row order is not modelled: rows are a set)
SeriesSummarize(s) ==
    IF s.chips = None
    THEN [outcome |-> "AttributeError", table |-> None]
    ELSE IF DOMAIN s.chips[1] = {}
         THEN [outcome |-> "ValueError", table |-> None]
         ELSE [outcome |-> "ok",
               table |-> Some(
                 [cols |-> ChipCols \o << <<s.series_indexer>> >>,
                  rows |-> UNION {{[r EXCEPT !.at = Some(k),
                                             !.filled = r.filled \cup {<<s.series_indexer>>}]
                                   : r \in ChipTable(s.chips[1][k]).rows}
                                  : k \in DOMAIN s.chips[1]}])]

(***************************************************************************)
(* Assay and TurnoverAssay                                                 *)
(***************************************************************************)
\* the directory behind each path given to load_kin
DirOf(path) ==
    CASE path = "p1" -> {[tags |-> {"StitchedImg"}, last |-> <<"1">>],
                         [tags |-> {"StitchedImg"}, last |-> <<"2">>]}
      [] path = "p2" -> {[tags |-> {"StitchedImg"}, last |-> <<"5">>]}
      [] OTHER -> {[tags |-> {"StitchedImg"}, last |-> <<"x">>]}

\* Assay.__init__
NewAssay(description) ==
    [description |-> description, series |-> None, quants |-> <<>>]

\* AssayAddSeries without the isinstance test
AssayAddSeriesAny(a, c) == [outcome |-> "ok", a |-> [a EXCEPT !.series = Some(c)]]

\* Assay.add_series
AssayAddSeries(a, c) ==
    IF IsChipSeries(c)
    THEN [outcome |-> "ok", a |-> [a EXCEPT !.series = Some(c)]]
    ELSE [outcome |-> "TypeError", a |-> a]

\* Assay.add_quant
AssayAddQuant(a, c) == [a EXCEPT !.quants = Append(a.quants, c)]

\* lines 753-754 of load_kin: a new Timecourse and its load_files
KinTimecourse(desc, path) ==
    LET t == NewSeries("Timecourse", desc).obj[1]
        dir == DirOf(path)
        rec == CHOOSE r \in RecordChoices(dir, FALSE, None) : TRUE
    IN  SeriesLoadFiles(t, path, dir, FALSE, None, rec)

\* one round of the loop of load_kin on the assay it names: a new Timecourse,
\* its load_files, and the assignment to the series field
LoadKinStep(a, desc, path) ==
    LET r == KinTimecourse(desc, path) IN
    IF r.outcome = "ok"
    THEN [outcome |-> "ok", a |-> [a EXCEPT !.series = Some(r.s)]]
    ELSE [outcome |-> r.outcome, a |-> a]

RECURSIVE QuantsProcessLoop(_, _)
\* the inner loop of process_quants (lines 889-890) from quant i on:
\* quant.process(reference = self.button_ref, mapped_features = 'button')
QuantsProcessLoop(a, i) ==
    IF i > Len(a.quants)
    THEN [outcome |-> "ok", a |-> a]
    ELSE LET r == QuantProcess(a.quants[i], TRUE, "button", "ok") IN
         IF r.outcome = "ok"
         THEN QuantsProcessLoop([a EXCEPT !.quants[i] = r.q], i + 1)
         ELSE [outcome |-> r.outcome, a |-> [a EXCEPT !.quants[i] = r.q]]

\* s.process(self.chamber_ref) of process_kinetics (lines 912-913)
KinProcessStep(a) ==
    IF a.series = None \/ a.series[1].cls # "Timecourse"
    THEN [outcome |-> "AttributeError", a |-> a]
    ELSE LET s == a.series[1]
             order == CHOOSE o \in TimecourseOrders(s) : TRUE
             r == TimecourseProcess(s, "chamber", order)
         IN [outcome |-> r.outcome, a |-> [a EXCEPT !.series = Some(r.s)]]

\* the tables merge_summarize joins onto the series summary (lines 683-687):
\* summary.add_suffix(...), the table toAdd without 'id' being left unused
QuantsCleaned(quants) ==
    [i \in DOMAIN quants |->
        LET summary == ChipTable(quants[i].chip[1])
            toAdd == drop(summary, <<"id">>)
        IN add_suffix(summary, QuantSuffix(quants[i].description))]

\* TurnoverAssay.merge_summarize
MergeSummarize(a) ==
    IF \E i \in DOMAIN a.quants : a.quants[i].chip = None
    THEN [outcome |-> "AttributeError", table |-> None]
    ELSE IF a.series = None
         THEN [outcome |-> "AttributeError", table |-> None]
         ELSE LET kin == SeriesSummarize(a.series[1]) IN
              IF kin.outcome # "ok"
              THEN [outcome |-> kin.outcome, table |-> None]
              ELSE [outcome |-> "ok",
                    table |-> Some(join_left(kin.table[1], QuantsCleaned(a.quants)))]

\* the objects handed to add_series: new series, and objects of other types
SeriesArgs ==
    {NewSeries("Timecourse", "t").obj[1], NewSeries("StandardSeries", "std").obj[1],
     NewChipQuant(<<"Button_Quant">>), [cls |-> "NoneType"]}

\* the ChipQuants handed to add_quant: new or loaded, under two descriptions
QuantArgs ==
    {NewChipQuant(d) : d \in {<<"Button_Quant">>, <<"pre", " ", "wash">>}}
    \cup {QuantLoadFile(NewChipQuant(d), "p1") :
             d \in {<<"Button_Quant">>, <<"pre", " ", "wash">>}}

NoCallT ==
    [op |-> "init", outcome |-> "ok", arg |-> None, pre |-> NewAssay("a"),
     table |-> None]

InitT ==
    /\ assay = NewAssay("a")
    /\ tlast = NoCallT

AddSeries ==
    \E c \in SeriesArgs :
      LET r == AssayAddSeries(assay, c) IN
      /\ assay' = r.a
      /\ tlast' = [NoCallT EXCEPT !.op = "add_series", !.outcome = r.outcome,
                                  !.arg = Some(c), !.pre = assay]
      /\ UNCHANGED <<varsQ, varsS, varsA>>

AddQuant ==
    /\ Len(assay.quants) < MaxAssayQuants
    /\ \E c \in QuantArgs :
         /\ assay' = AssayAddQuant(assay, c)
         /\ tlast' = [NoCallT EXCEPT !.op = "add_quant", !.arg = Some(c), !.pre = assay]
         /\ UNCHANGED <<varsQ, varsS, varsA>>

KinAssign ==
    \E path \in Paths :
      LET r == LoadKinStep(assay, assay.description, path) IN
      /\ assay' = r.a
      /\ tlast' = [NoCallT EXCEPT !.op = "load_kin", !.outcome = r.outcome,
                                  !.arg = Some(path), !.pre = assay]
      /\ UNCHANGED <<varsQ, varsS, varsA>>

KinProcess ==
    LET r == KinProcessStep(assay) IN
    /\ assay' = r.a
    /\ tlast' = [NoCallT EXCEPT !.op = "process_kinetics", !.outcome = r.outcome,
                                !.pre = assay]
    /\ UNCHANGED <<varsQ, varsS, varsA>>

QuantsProcess ==
    LET r == QuantsProcessLoop(assay, 1) IN
    /\ assay' = r.a
    /\ tlast' = [NoCallT EXCEPT !.op = "process_quants", !.outcome = r.outcome,
                                !.pre = assay]
    /\ UNCHANGED <<varsQ, varsS, varsA>>

Merge ==
    LET r == MergeSummarize(assay) IN
    /\ assay' = assay
    /\ tlast' = [NoCallT EXCEPT !.op = "merge_summarize", !.outcome = r.outcome,
                                !.pre = assay, !.table = r.table]
    /\ UNCHANGED <<varsQ, varsS, varsA>>

NextT == AddSeries \/ AddQuant \/ KinAssign \/ KinProcess \/ QuantsProcess \/ Merge

(***************************************************************************)
(* AssaySeries                                                             *)
(***************************************************************************)
DescPool == {"a", "b"}

RECURSIVE SeqsUpTo(_, _)
\* the sequences over S of length at most n
SeqsUpTo(S, n) ==
    IF n = 0 THEN {<<>>}
    ELSE LET shorter == SeqsUpTo(S, n - 1) IN
         shorter \cup {Append(q, x) : q \in shorter, x \in S}

RECURSIVE OrderedKeys(_)
\* the keys of OrderedDict([(d, ...) for d in descriptions]): each description
\* once, in the order of its first occurrence
OrderedKeys(descriptions) ==
    IF descriptions = <<>> THEN <<>>
    ELSE LET front == OrderedKeys(SubSeq(descriptions, 1, Len(descriptions) - 1))
             d == descriptions[Len(descriptions)]
         IN IF d \in Range(front) THEN front ELSE Append(front, d)

\* AssaySeries.__init__
NewAssaySeries(descriptions) ==
    [keys |-> OrderedKeys(descriptions),
     assays |-> [d \in Range(descriptions) |-> NewAssay(d)]]

\* zip(descriptions, paths, [channel]*len_series, [exposure]*len_series):
\* as long as the shortest of them
Zip(descriptions, paths, len_series) ==
    [i \in 1..Min({Len(descriptions), Len(paths), len_series}) |->
        [desc |-> descriptions[i], p |-> paths[i]]]

NoAssigned == [d \in DescPool |-> 0]

RECURSIVE LoadKinLoopByPosition(_, _, _, _)
\* LoadKinLoop assigning the i-th Timecourse to the i-th assay
LoadKinLoopByPosition(as, refs, i, assigned) ==
    IF i > Len(refs)
    THEN [outcome |-> "ok", as |-> as, assigned |-> assigned]
    ELSE LET t == KinTimecourse(refs[i].desc, refs[i].p)
             k == as.keys[i]
         IN  IF t.outcome # "ok"
             THEN [outcome |-> t.outcome, as |-> as, assigned |-> assigned]
             ELSE LoadKinLoopByPosition(
                      [as EXCEPT !.assays[k].series = Some(t.s)], refs, i + 1,
                      [assigned EXCEPT ![k] = @ + 1])

RECURSIVE LoadKinLoop(_, _, _, _)
\* the loop of load_kin (lines 752-755) from pair i on; assigned counts the
\* assignments to each assay's series field
LoadKinLoop(as, refs, i, assigned) ==
    IF i > Len(refs)
    THEN [outcome |-> "ok", as |-> as, assigned |-> assigned]
    ELSE LET t == KinTimecourse(refs[i].desc, refs[i].p)
             desc == refs[i].desc
         IN  IF t.outcome # "ok"
             THEN [outcome |-> t.outcome, as |-> as, assigned |-> assigned]
             ELSE IF desc \notin DOMAIN as.assays
                  THEN [outcome |-> "KeyError", as |-> as, assigned |-> assigned]
                  ELSE LoadKinLoop(
                           [as EXCEPT !.assays[desc].series = Some(t.s)], refs, i + 1,
                           [assigned EXCEPT ![desc] = @ + 1])

\* AssaySeries.load_kin raising only when there are more descriptions than
\* assays
AssaysLoadKinLax(as, descriptions, paths) ==
    LET len_series == Len(as.keys) IN
    IF Len(descriptions) > len_series
    THEN [outcome |-> "ValueError", as |-> as, assigned |-> NoAssigned]
    ELSE LoadKinLoop(as, Zip(descriptions, paths, len_series), 1, NoAssigned)

\* AssaySeries.load_kin
AssaysLoadKin(as, descriptions, paths) ==
    LET len_series == Len(as.keys) IN
    IF Len(descriptions) # len_series
    THEN [outcome |-> "ValueError", as |-> as, assigned |-> NoAssigned]
    ELSE LoadKinLoop(as, Zip(descriptions, paths, len_series), 1, NoAssigned)

\* the ChipQuant that load_quants makes of a path (lines 784-785)
QuantOf(path) == QuantLoadFile(NewChipQuant(<<"Button_Quant">>), path)

RECURSIVE LoadQuantsLoop(_, _, _)
\* the loop of load_quants (lines 783-786) from pair i on
LoadQuantsLoop(as, refs, i) ==
    IF i > Len(refs)
    THEN [outcome |-> "ok", as |-> as]
    ELSE LET desc == refs[i].desc IN
         IF desc \notin DOMAIN as.assays
         THEN [outcome |-> "KeyError", as |-> as]
         ELSE LoadQuantsLoop(
                  [as EXCEPT !.assays[desc] = AssayAddQuant(@, QuantOf(refs[i].p))],
                  refs, i + 1)

\* LoadQuantsRefs pairing the descriptions passed, never the assay keys
LoadQuantsRefsNoBroadcast(as, descriptions, paths) ==
    Zip(descriptions, paths, Len(as.keys))

\* bq_refs of load_quants (lines 776-782) for lists of equal length
LoadQuantsRefs(as, descriptions, paths) ==
    LET len_series == Len(as.keys) IN
    IF Len(descriptions) = 1
    THEN Zip(as.keys, [i \in 1..(Len(paths) * len_series) |-> paths[1]], len_series)
    ELSE Zip(descriptions, paths, len_series)

\* AssaySeries.load_quants; kind tells whether paths is a list (or tuple) or
\* a view such as dict.values(), which has a length but cannot be repeated
AssaysLoadQuants(as, descriptions, paths, kind) ==
    IF Len(descriptions) # Len(paths)
    THEN [outcome |-> "ValueError", as |-> as]
    ELSE IF Len(descriptions) = 1 /\ kind # "list"
         THEN [outcome |-> "TypeError", as |-> as]
         ELSE LoadQuantsLoop(as, LoadQuantsRefs(as, descriptions, paths), 1)

NoCallA ==
    [op |-> "init", outcome |-> "ok", kind |-> "list", descs |-> <<>>,
     paths |-> <<>>, pre |-> <<>>, assigned |-> NoAssigned,
     subset |-> <<>>, low_mem |-> FALSE, fail |-> None, log |-> <<>>]

InitA ==
    /\ \E descriptions \in SeqsUpTo(DescPool, MaxArgs) :
         aseries = NewAssaySeries(descriptions)
    /\ args \in [descs : SeqsUpTo(DescPool, MaxArgs), paths : SeqsUpTo(Paths, MaxArgs)]
    /\ alast = NoCallA

IdleA ==
    /\ aseries = NewAssaySeries(<<>>)
    /\ args = [descs |-> <<>>, paths |-> <<>>]
    /\ alast = NoCallA

\* load_kin with the descriptions and paths of the behaviour
LoadKin ==
    LET r == AssaysLoadKin(aseries, args.descs, args.paths) IN
    /\ aseries' = r.as
    /\ alast' = [NoCallA EXCEPT !.op = "load_kin", !.outcome = r.outcome,
                                !.descs = args.descs, !.paths = args.paths,
                                !.pre = aseries.assays, !.assigned = r.assigned]
    /\ UNCHANGED <<args, varsQ, varsS, varsT>>

\* load_kin with the assay keys and one path for all of them
LoadKinKeys ==
    LET paths == [i \in DOMAIN aseries.keys |-> "p2"]
        r == AssaysLoadKin(aseries, aseries.keys, paths)
    IN
    /\ aseries' = r.as
    /\ alast' = [NoCallA EXCEPT !.op = "load_kin", !.outcome = r.outcome,
                                !.descs = aseries.keys, !.paths = paths,
                                !.pre = aseries.assays, !.assigned = r.assigned]
    /\ UNCHANGED <<args, varsQ, varsS, varsT>>

\* load_quants with the descriptions and paths of the behaviour
LoadQuants ==
    /\ \A d \in DOMAIN aseries.assays : Len(aseries.assays[d].quants) < MaxAssayQuants
    /\ \E kind \in {"list", "view"} :
         LET r == AssaysLoadQuants(aseries, args.descs, args.paths, kind) IN
         /\ aseries' = r.as
         /\ alast' = [NoCallA EXCEPT !.op = "load_quants", !.outcome = r.outcome,
                                     !.kind = kind, !.descs = args.descs,
                                     !.paths = args.paths, !.pre = aseries.assays]
         /\ UNCHANGED <<args, varsQ, varsS, varsT>>

NextA == LoadKin \/ LoadKinKeys \/ LoadQuants

IdleQ ==
    /\ quant = [q |-> NewChipQuant(<<"Button_Quant">>), loads |-> 0]
    /\ qlast = NoCallQ

NextS == Construct \/ SLoadFiles \/ SProcess \/ TProcess

\* add_file on the series of the behaviour
AddFile ==
    /\ series # None
    /\ series[1].chips # None => Cardinality(DOMAIN series[1].chips[1]) <= MaxFiles
    /\ \E identifier \in AddIds :
         LET r == SeriesAddFile(series[1], identifier, AddSource) IN
         /\ series' = Some(r.s)
         /\ slast' = [NoCallS EXCEPT !.op = "add_file", !.outcome = r.outcome,
                                     !.id = identifier, !.pre = series[1].chips]
         /\ fs' = fs
         /\ UNCHANGED <<varsQ, varsT, varsA>>

\* constructing a series, loading files into it and adding single files
NextAdd == Construct \/ SLoadFiles \/ AddFile

(***************************************************************************)
(* AssaySeries.process_kinetics and process_quants.  A call leaves a log   *)
(* of the steps that were completed, each with the position (item) in the  *)
(* iterated subset, the assay key and, for a quant, its number in the      *)
(* assay's list.  Writing a file is the one step whose failure is up to    *)
(* the file system: fail names the write that raises OSError, if any.      *)
(***************************************************************************)
Event(op, item, key, n) == [op |-> op, item |-> item, key |-> key, n |-> n]

Write(op, item, n) == Some([op |-> op, item |-> item, n |-> n])

\* ChipImage._delete_stamps: the stamp data is released
delete_stamps(c) == [c EXCEPT !.stamps = FALSE]

\* ChipSeries._delete_stamps
SeriesDeleteStamps(s) ==
    [s EXCEPT !.chips = Some([k \in DOMAIN s.chips[1] |-> delete_stamps(s.chips[1][k])])]

\* the steps of one round of process_kinetics, in the order of lines 912-917
KineticsSteps(low_mem) ==
    <<"process", "save_summary", "save_summary_images">>
        \o (IF low_mem THEN <<"_delete_stamps">> ELSE <<>>)

\* KineticsRound releasing the stamps right after s.process, whatever low_mem
KineticsRoundEagerDelete(a, key, i, low_mem, fail, log) ==
    LET p == KinProcessStep(a) IN
    IF p.outcome # "ok"
    THEN [outcome |-> p.outcome, a |-> p.a, log |-> log]
    ELSE [outcome |-> "ok",
          a |-> [p.a EXCEPT !.series = Some(SeriesDeleteStamps(p.a.series[1]))],
          log |-> log \o <<Event("process", i, key, 0),
                           Event("_delete_stamps", i, key, 0),
                           Event("save_summary", i, key, 0),
                           Event("save_summary_images", i, key, 0)>>]

\* one round of the loop of process_kinetics (lines 912-917), for item i of
\* the subset: s.process, s.save_summary (Timecourse.save_summary, lines
\* 435-440), s.save_summary_images and, with low_mem, s._delete_stamps
KineticsRound(a, key, i, low_mem, fail, log) ==
    LET p == KinProcessStep(a) IN
    IF p.outcome # "ok"
    THEN [outcome |-> p.outcome, a |-> p.a, log |-> log]
    ELSE
    LET log1 == Append(log, Event("process", i, key, 0))
        df == SeriesSummarize(p.a.series[1])
    IN
    IF df.outcome # "ok"
    THEN [outcome |-> df.outcome, a |-> p.a, log |-> log1]
    ELSE IF fail = Write("save_summary", i, 0)
    THEN [outcome |-> "OSError", a |-> p.a, log |-> log1]
    ELSE
    LET log2 == Append(log1, Event("save_summary", i, key, 0)) IN
    IF fail = Write("save_summary_images", i, 0)
    THEN [outcome |-> "OSError", a |-> p.a, log |-> log2]
    ELSE
    LET log3 == Append(log2, Event("save_summary_images", i, key, 0)) IN
    IF low_mem
    THEN [outcome |-> "ok",
          a |-> [p.a EXCEPT !.series = Some(SeriesDeleteStamps(p.a.series[1]))],
          log |-> Append(log3, Event("_delete_stamps", i, key, 0))]
    ELSE [outcome |-> "ok", a |-> p.a, log |-> log3]

RECURSIVE ProcessKineticsLoopOn(_, _, _, _, _, _)
\* ProcessKineticsLoop going on to the next item after a failing one
ProcessKineticsLoopOn(as, subset, i, low_mem, fail, log) ==
    IF i > Len(subset)
    THEN [outcome |-> "ok", as |-> as, log |-> log]
    ELSE LET key == subset[i] IN
         IF key \notin DOMAIN as.assays
         THEN ProcessKineticsLoopOn(as, subset, i + 1, low_mem, fail, log)
         ELSE LET r == KineticsRound(as.assays[key], key, i, low_mem, fail, log)
                  n == ProcessKineticsLoopOn([as EXCEPT !.assays[key] = r.a],
                                             subset, i + 1, low_mem, fail, r.log)
              IN  IF r.outcome = "ok" THEN n ELSE [n EXCEPT !.outcome = r.outcome]

RECURSIVE ProcessKineticsLoop(_, _, _, _, _, _)
\* the loop of process_kinetics (lines 911-917) from item i on
ProcessKineticsLoop(as, subset, i, low_mem, fail, log) ==
    IF i > Len(subset)
    THEN [outcome |-> "ok", as |-> as, log |-> log]
    ELSE LET key == subset[i] IN
         IF key \notin DOMAIN as.assays
         THEN [outcome |-> "KeyError", as |-> as, log |-> log]
         ELSE LET r == KineticsRound(as.assays[key], key, i, low_mem, fail, log)
                  as1 == [as EXCEPT !.assays[key] = r.a]
              IN  IF r.outcome # "ok"
                  THEN [outcome |-> r.outcome, as |-> as1, log |-> r.log]
                  ELSE ProcessKineticsLoop(as1, subset, i + 1, low_mem, fail, r.log)

\* the keys a call iterates over: `if not subset: subset = self.assays.keys()`
SubsetOf(as, subset) == IF subset = <<>> THEN as.keys ELSE subset

\* AssaySeries.process_kinetics
AssaysProcessKinetics(as, subset, low_mem, fail) ==
    ProcessKineticsLoop(as, SubsetOf(as, subset), 1, low_mem, fail, <<>>)

RECURSIVE QuantsRound(_, _, _, _, _, _)
\* the inner loop of process_quants (lines 889-891) from quant n on:
\* quant.process(reference = self.button_ref, mapped_features = 'button')
\* and quant.save_summary_image()
QuantsRound(a, key, i, n, fail, log) ==
    IF n > Len(a.quants)
    THEN [outcome |-> "ok", a |-> a, log |-> log]
    ELSE LET r == QuantProcess(a.quants[n], TRUE, "button", "ok")
             a1 == [a EXCEPT !.quants[n] = r.q]
             log1 == Append(log, Event("process", i, key, n))
         IN  IF r.outcome # "ok"
             THEN [outcome |-> r.outcome, a |-> a1, log |-> log]
             ELSE IF fail = Write("save_summary_image", i, n)
             THEN [outcome |-> "OSError", a |-> a1, log |-> log1]
             ELSE QuantsRound(a1, key, i, n + 1, fail,
                              Append(log1, Event("save_summary_image", i, key, n)))

RECURSIVE ProcessQuantsLoop(_, _, _, _, _)
\* the outer loop of process_quants (lines 888-891) from item i on
ProcessQuantsLoop(as, subset, i, fail, log) ==
    IF i > Len(subset)
    THEN [outcome |-> "ok", as |-> as, log |-> log]
    ELSE LET key == subset[i] IN
         IF key \notin DOMAIN as.assays
         THEN [outcome |-> "KeyError", as |-> as, log |-> log]
         ELSE LET r == QuantsRound(as.assays[key], key, i, 1, fail, log)
                  as1 == [as EXCEPT !.assays[key] = r.a]
              IN  IF r.outcome # "ok"
                  THEN [outcome |-> r.outcome, as |-> as1, log |-> r.log]
                  ELSE ProcessQuantsLoop(as1, subset, i + 1, fail, r.log)

\* AssaySeries.process_quants
AssaysProcessQuants(as, subset, fail) ==
    ProcessQuantsLoop(as, SubsetOf(as, subset), 1, fail, <<>>)

\* the subsets passed: none, or the descriptions of the behaviour
Subsets == {<<>>, args.descs}

\* the writes of a process_kinetics call that the file system may refuse
KineticsFails(subset) ==
    {None} \cup {Write(op, i, 0) : op \in {"save_summary", "save_summary_images"},
                                   i \in DOMAIN subset}

\* the writes of a process_quants call that the file system may refuse
QuantsFails(subset) ==
    {None} \cup {Write("save_summary_image", i, n) : i \in DOMAIN subset,
                                                     n \in {1, 2}}

ProcessKinetics ==
    \E subset \in Subsets, low_mem \in BOOLEAN :
      \E fail \in KineticsFails(SubsetOf(aseries, subset)) :
        LET r == AssaysProcessKinetics(aseries, subset, low_mem, fail) IN
        /\ aseries' = r.as
        /\ alast' = [NoCallA EXCEPT !.op = "process_kinetics", !.outcome = r.outcome,
                                    !.subset = subset, !.low_mem = low_mem,
                                    !.fail = fail, !.log = r.log,
                                    !.pre = aseries.assays]
        /\ UNCHANGED <<args, varsQ, varsS, varsT>>

ProcessQuants ==
    \E subset \in Subsets :
      \E fail \in QuantsFails(SubsetOf(aseries, subset)) :
        LET r == AssaysProcessQuants(aseries, subset, fail) IN
        /\ aseries' = r.as
        /\ alast' = [NoCallA EXCEPT !.op = "process_quants", !.outcome = r.outcome,
                                    !.subset = subset, !.fail = fail, !.log = r.log,
                                    !.pre = aseries.assays]
        /\ UNCHANGED <<args, varsQ, varsS, varsT>>

\* the collections, descriptions and paths of the batch behaviours: one or
\* two assays; descriptions in and out of order, repeated, too few, unknown;
\* paths that load, a path that does not, and too few paths
BatchKeys == {<<>>, <<"a">>, <<"a", "b">>}

BatchDescs ==
    {<<>>, <<"a">>, <<"b">>, <<"a", "b">>, <<"b", "a">>, <<"a", "a">>, <<"a", "c">>}

BatchPaths == {<<>>, <<"p2">>, <<"p2", "p2">>, <<"bad", "p2">>, <<"p2", "bad">>}

InitB ==
    /\ \E descriptions \in BatchKeys : aseries = NewAssaySeries(descriptions)
    /\ args \in [descs : BatchDescs, paths : BatchPaths]
    /\ alast = NoCallA

\* loading and processing a collection of assays
NextBatch == LoadKin \/ LoadQuants \/ ProcessKinetics \/ ProcessQuants

InitQuant == InitQ /\ IdleS /\ InitT /\ IdleA

InitSeries == InitS /\ IdleQ /\ InitT /\ IdleA

InitAssay == InitT /\ IdleQ /\ IdleS /\ IdleA

InitAssays == InitA /\ IdleQ /\ IdleS /\ InitT

InitBatch == InitB /\ IdleQ /\ IdleS /\ InitT

SpecQuant == InitQuant /\ [][NextQ]_vars

SpecSeries == InitSeries /\ [][NextS]_vars

SpecAdd == InitSeries /\ [][NextAdd]_vars

SpecAssay == InitAssay /\ [][NextT]_vars

SpecAssays == InitAssays /\ [][NextA]_vars

SpecBatch == InitBatch /\ [][NextBatch]_vars

(***************************************************************************)
(* Claims about the ChipSeries family, checked under SpecSeries.           *)
(***************************************************************************)
\* C6 as stated: after load_files on a directory whose matching image files
\* (matched by the glob pattern and not chamber-border artifacts) end in
\* unique trailing integers, the chip mapping has one entry per matching
\* file and its keys are exactly those integers.
C6_AsStated ==
    slast.op = "load_files" =>
        LET m == {f \in fs : /\ (slast.glob # None \/ "StitchedImg" \in f.tags)
                             /\ ("ChamberBorders" \notin f.tags \/ "Summary" \in f.tags)}
        IN  (/\ \A f \in m : IsInt(f.last)
             /\ \A f, g \in m : IntOf(f.last) = IntOf(g.last) => f = g)
            => /\ slast.outcome = "ok"
               /\ series[1].chips # None
               /\ DOMAIN series[1].chips[1] = {IntOf(f.last) : f \in m}
               /\ Cardinality(DOMAIN series[1].chips[1]) = Cardinality(m)
               /\ \A k \in DOMAIN series[1].chips[1] :
                     /\ series[1].chips[1][k].path.file \in m
                     /\ IntOf(series[1].chips[1][k].path.file.last) = k

\* C6 amended: the same, for load_files called without indexes (indexes None
\* or empty); with indexes given load_files loads nothing.
C6_LoadFilesKeys ==
    (slast.op = "load_files" /\ ~slast.indexes) =>
        LET m == {f \in fs : /\ (slast.glob # None \/ "StitchedImg" \in f.tags)
                             /\ ("ChamberBorders" \notin f.tags \/ "Summary" \in f.tags)}
        IN  (/\ \A f \in m : IsInt(f.last)
             /\ \A f, g \in m : IntOf(f.last) = IntOf(g.last) => f = g)
            => /\ slast.outcome = "ok"
               /\ series[1].chips # None
               /\ DOMAIN series[1].chips[1] = {IntOf(f.last) : f \in m}
               /\ Cardinality(DOMAIN series[1].chips[1]) = Cardinality(m)
               /\ \A k \in DOMAIN series[1].chips[1] :
                     /\ series[1].chips[1][k].path.file \in m
                     /\ IntOf(series[1].chips[1][k].path.file.last) = k

\* C6 witness: three files with the trailing integers 1, 2 and 5 were loaded
\* with the default pattern
C6_Witness ==
    /\ slast.op = "load_files"
    /\ ~slast.indexes
    /\ slast.glob = None
    /\ slast.outcome = "ok"
    /\ Cardinality(fs) = 3
    /\ series[1].chips # None
    /\ DOMAIN series[1].chips[1] = {1, 2, 5}

\* C7: on a StandardSeries with a non-empty chip mapping, process() takes the
\* chip with the maximum key as the high standard, stamps it and finds its
\* chambers, and then stamps and maps onto exactly the other keys, each once;
\* the high standard is never the target of a mapping.
C7_ProcessMapsFromHs ==
    (/\ slast.op = "process"
     /\ series # None
     /\ series[1].cls = "StandardSeries"
     /\ series[1].chips # None
     /\ DOMAIN series[1].chips[1] # {}) =>
        LET keys == DOMAIN series[1].chips[1]
            hk == CHOOSE x \in keys : \A y \in keys : y <= x
            rest == keys \ {hk}
            log == slast.log
        IN  /\ slast.outcome = "ok"
            /\ Len(log) = 2 + 2 * Cardinality(rest)
            /\ log[1] = [op |-> "stamp", key |-> hk]
            /\ log[2] = [op |-> "findChambers", key |-> hk]
            /\ \A i \in 3..Len(log) : log[i].key \in rest /\ log[i].op \in {"stamp", "mapto"}
            /\ \A k \in rest :
                  /\ Cardinality({i \in 3..Len(log) : log[i] = [op |-> "stamp", key |-> k]}) = 1
                  /\ Cardinality({i \in 3..Len(log) : log[i] = [op |-> "mapto", key |-> k]}) = 1
                  /\ \E i \in 3..(Len(log) - 1) :
                        /\ log[i] = [op |-> "stamp", key |-> k]
                        /\ log[i + 1] = [op |-> "mapto", key |-> k]
            /\ \A i \in DOMAIN log : log[i].op = "mapto" => log[i].key # hk

\* C7 witness: a StandardSeries of three chips was processed
C7_Witness ==
    /\ slast.op = "process"
    /\ slast.outcome = "ok"
    /\ series # None
    /\ series[1].cls = "StandardSeries"
    /\ series[1].chips # None
    /\ Cardinality(DOMAIN series[1].chips[1]) = 3
    /\ Len(slast.log) = 6

(***************************************************************************)
(* Claims about Assay and TurnoverAssay, checked under SpecAssay.          *)
(***************************************************************************)
\* C9: an Assay's series field is always None or an instance of the
\* ChipSeries family; add_series with any other object raises TypeError and
\* leaves the field unchanged, and add_series with a ChipSeries-family
\* instance sets the field to it.
C9_SeriesField ==
    /\ assay.series # None =>
           assay.series[1].cls \in {"ChipSeries", "StandardSeries", "Timecourse", "Titration"}
    /\ tlast.op = "add_series" =>
           IF tlast.arg[1].cls \in {"ChipSeries", "StandardSeries", "Timecourse", "Titration"}
           THEN tlast.outcome = "ok" /\ assay.series = tlast.arg
           ELSE tlast.outcome = "TypeError" /\ assay.series = tlast.pre.series

\* C9 witness: add_series with a ChipQuant was rejected on an assay whose
\* series load_kin had set
C9_Witness ==
    /\ tlast.op = "add_series"
    /\ tlast.arg[1].cls = "ChipQuant"
    /\ tlast.outcome = "TypeError"
    /\ assay.series # None
    /\ assay.series[1].cls = "Timecourse"

\* C10: merge_summarize drops the 'id' column of every quant summary before
\* suffixing and joining, so the merged table has no column derived from a
\* quant's 'id' column; its rows are exactly the rows of the series summary,
\* each holding the values of a quant where that quant has its index value
\* and nulls where it has not.
C10_AsStated ==
    (tlast.op = "merge_summarize" /\ tlast.outcome = "ok") =>
        LET t == tlast.table[1]
            kin == SeriesSummarize(assay.series[1]).table[1]
            qs == assay.quants
        IN  /\ \A i \in DOMAIN qs : \A j \in DOMAIN t.cols :
                  t.cols[j] # <<"id">> \o QuantSuffix(qs[i].description)
            /\ {[idx |-> r.idx, at |-> r.at] : r \in t.rows}
                   = {[idx |-> r.idx, at |-> r.at] : r \in kin.rows}
            /\ Cardinality(t.rows) = Cardinality(kin.rows)
            /\ \A r \in t.rows : \A i \in DOMAIN qs :
                  (<<"summed">> \o QuantSuffix(qs[i].description) \in r.filled)
                      => \E j \in DOMAIN qs :
                            /\ qs[j].description = qs[i].description
                            /\ r.idx \in FeatureIdx(qs[j].chip[1])

(***************************************************************************)
(* Claims about AssaySeries, checked under SpecAssays.                     *)
(***************************************************************************)
\* C2: load_kin raises ValueError whenever the number of descriptions differs
\* from the number of assays, and then no assay's series field has changed.
C2_LoadKinLength ==
    (alast.op = "load_kin" /\ Len(alast.descs) # Cardinality(DOMAIN aseries.assays)) =>
        /\ alast.outcome = "ValueError"
        /\ \A d \in DOMAIN aseries.assays :
              aseries.assays[d].series = alast.pre[d].series

\* C2 witness: load_kin with too few descriptions was refused on a collection
\* of two assays whose series an earlier load_kin had set
C2_Witness ==
    /\ alast.op = "load_kin"
    /\ Len(alast.descs) = 1
    /\ Len(alast.paths) = 1
    /\ Cardinality(DOMAIN aseries.assays) = 2
    /\ alast.outcome = "ValueError"
    /\ \A d \in DOMAIN aseries.assays : aseries.assays[d].series # None

\* C3: when load_kin is called with descriptions that are exactly the assay
\* keys (each once, in any order) and as many paths, then on return every
\* assay's series field was assigned exactly once, and the assay named
\* descriptions[i] holds a Timecourse loaded from paths[i].
C3_LoadKinAssociates ==
    (/\ alast.op = "load_kin"
     /\ Len(alast.descs) = Cardinality(DOMAIN aseries.assays)
     /\ {alast.descs[i] : i \in DOMAIN alast.descs} = DOMAIN aseries.assays
     /\ Len(alast.paths) = Len(alast.descs)
     /\ alast.outcome = "ok") =>
        \A i \in DOMAIN alast.descs :
           LET a == aseries.assays[alast.descs[i]] IN
           /\ alast.assigned[alast.descs[i]] = 1
           /\ a.series # None
           /\ a.series[1].cls = "Timecourse"
           /\ a.series[1].description = alast.descs[i]
           /\ a.series[1].series_root = Some(alast.paths[i])
           /\ a.series[1].chips # None
           /\ \A k \in DOMAIN a.series[1].chips[1] :
                 a.series[1].chips[1][k].path.file \in DirOf(alast.paths[i])
           /\ Cardinality(DOMAIN a.series[1].chips[1]) = Cardinality(DirOf(alast.paths[i]))

\* C3 witness: load_kin returned for two assays named in the reverse of
\* their order, with two different paths
C3_Witness ==
    /\ alast.op = "load_kin"
    /\ alast.outcome = "ok"
    /\ Len(aseries.keys) = 2
    /\ alast.descs = <<aseries.keys[2], aseries.keys[1]>>
    /\ alast.paths = <<"p1", "p2">>

\* C4 as stated: load_quants called with exactly one path (in a list),
\* whatever the number of descriptions, raises no length error and appends
\* one new ChipQuant loaded from that path to the quants of every assay.
C4_AsStated ==
    (alast.op = "load_quants" /\ alast.kind = "list" /\ Len(alast.paths) = 1) =>
        /\ alast.outcome = "ok"
        /\ \A d \in DOMAIN aseries.assays :
              aseries.assays[d].quants =
                  Append(alast.pre[d].quants,
                         [cls |-> "ChipQuant", description |-> <<"Button_Quant">>,
                          chip |-> Some(ChipImage(alast.paths[1], None)),
                          processed |-> FALSE])

\* C4 amended: load_quants called with exactly one description and exactly
\* one path (paths a list or tuple) raises no error and appends one new
\* ChipQuant loaded from that path to the quants of every assay, whatever
\* the description is.
C4_Broadcast ==
    (/\ alast.op = "load_quants"
     /\ alast.kind = "list"
     /\ Len(alast.paths) = 1
     /\ Len(alast.descs) = 1) =>
        /\ alast.outcome = "ok"
        /\ \A d \in DOMAIN aseries.assays :
              aseries.assays[d].quants =
                  Append(alast.pre[d].quants,
                         [cls |-> "ChipQuant", description |-> <<"Button_Quant">>,
                          chip |-> Some(ChipImage(alast.paths[1], None)),
                          processed |-> FALSE])

\* C4 witness: one description and one path were broadcast to two assays
\* that held a quant already
C4_Witness ==
    /\ alast.op = "load_quants"
    /\ alast.kind = "list"
    /\ Len(alast.paths) = 1
    /\ Len(alast.descs) = 1
    /\ alast.outcome = "ok"
    /\ Cardinality(DOMAIN aseries.assays) = 2
    /\ \A d \in DOMAIN aseries.assays : Len(aseries.assays[d].quants) = 2

\* C5: load_quants called with N descriptions (each an assay key) and N paths
\* (a list) appends, for every i, one new ChipQuant loaded from paths[i] to
\* the end of the quants of the assay named descriptions[i]: the quants of
\* every assay named are the ones it had, in their order, followed by one
\* quant per position it is named at, in the order of the positions.
C5_AsStated ==
    (/\ alast.op = "load_quants"
     /\ alast.kind = "list"
     /\ Len(alast.descs) = Len(alast.paths)
     /\ \A i \in DOMAIN alast.descs : alast.descs[i] \in DOMAIN aseries.assays) =>
        /\ alast.outcome = "ok"
        /\ \A d \in {alast.descs[i] : i \in DOMAIN alast.descs} :
              LET at == {i \in DOMAIN alast.descs : alast.descs[i] = d}
                  new == aseries.assays[d].quants
                  old == alast.pre[d].quants
              IN  /\ Len(new) = Len(old) + Cardinality(at)
                  /\ SubSeq(new, 1, Len(old)) = old
                  /\ \A i \in at :
                        new[Len(old) + Cardinality({j \in at : j <= i})].chip
                            = Some(ChipImage(alast.paths[i], None))

(***************************************************************************)
(* Further claims about ChipQuant, checked under SpecQuant.                *)
(***************************************************************************)
\* C14: whenever summarize() returns a table, the chip the ChipQuant holds
\* is one that process() has worked on, so has at least stamped (the claim
\* asks for its features to be found or mapped as well); in particular after
\* load_file replaced the chip of a processed ChipQuant, summarize() returns
\* no table for the new chip until process() has run again.
C14_AsStated ==
    (qlast.op = "summarize" /\ qlast.outcome = "ok") =>
        /\ quant.q.chip # None
        /\ quant.q.chip[1].stamped

(***************************************************************************)
(* Further claims about TurnoverAssay, checked under SpecAssay.            *)
(***************************************************************************)
\* C15: merge_summarize never takes a summary table from a quant whose
\* processed flag is False: when a quant of the assay has not been processed
\* the call fails (the claim names the ValueError of ChipQuant.summarize)
\* and returns no merged table.
C15_AsStated ==
    (/\ tlast.op = "merge_summarize"
     /\ \E i \in DOMAIN assay.quants : ~assay.quants[i].processed) =>
        /\ tlast.outcome # "ok"
        /\ tlast.table = None

(***************************************************************************)
(* Claims about add_file, checked under SpecAdd.                           *)
(***************************************************************************)
\* C13: a newly constructed series starts with an empty chip mapping, and
\* add_file(identifier, ...) on a series, at any time, puts one ChipImage
\* under that identifier and leaves every other entry as it was (so a new
\* identifier grows the mapping by one and an existing one keeps its size).
C13_AsStated ==
    /\ slast.op = "new" =>
          /\ slast.outcome = "ok"
          /\ series # None
          /\ series[1].chips = Some(<<>>)
    /\ slast.op = "add_file" =>
          /\ slast.outcome = "ok"
          /\ slast.pre # None
          /\ series[1].chips # None
          /\ LET before == slast.pre[1]
                 after == series[1].chips[1]
             IN  /\ DOMAIN after = DOMAIN before \cup {slast.id}
                 /\ after[slast.id].meta = Some(slast.id)
                 /\ \A k \in DOMAIN before \ {slast.id} : after[k] = before[k]

(***************************************************************************)
(* Claims about the batch operations of AssaySeries, checked under         *)
(* SpecBatch.                                                              *)
(***************************************************************************)
\* the steps logged for item i of the subset, in the order they were done
StepsOf(log, i) ==
    LET es == SelectSeq(log, LAMBDA e : e.item = i) IN
    [j \in DOMAIN es |-> es[j].op]

IsPrefix(p, q) == Len(p) <= Len(q) /\ SubSeq(q, 1, Len(p)) = p

\* C11: in process_kinetics the steps of every assay of the chosen set come
\* in the order process, save_summary, save_summary_images and then, with
\* low_mem, _delete_stamps: the items are worked in the order of the set, a
\* call that returns has done all the steps of every item, a call that raises
\* has done a front part of them; stamps are released only after the summary
\* table and the summary images of their series were written, and with low_mem
\* False no stamps are released at all.
C11_KineticsOrder ==
    alast.op = "process_kinetics" =>
        LET sub == SubsetOf(aseries, alast.subset)
            log == alast.log
            steps == KineticsSteps(alast.low_mem)
        IN  /\ \A j \in DOMAIN log :
                 /\ log[j].item \in DOMAIN sub
                 /\ log[j].key = sub[log[j].item]
            /\ \A j, k \in DOMAIN log : j < k => log[j].item <= log[k].item
            /\ \A i \in DOMAIN sub : IsPrefix(StepsOf(log, i), steps)
            /\ alast.outcome = "ok" => \A i \in DOMAIN sub : StepsOf(log, i) = steps
            /\ \A j \in DOMAIN log :
                 log[j].op = "_delete_stamps" =>
                     /\ alast.low_mem
                     /\ j > 3
                     /\ log[j - 3] = [log[j] EXCEPT !.op = "process"]
                     /\ log[j - 2] = [log[j] EXCEPT !.op = "save_summary"]
                     /\ log[j - 1] = [log[j] EXCEPT !.op = "save_summary_images"]
            /\ ~alast.low_mem =>
                 \A d \in DOMAIN alast.pre :
                     alast.pre[d].series # None /\ alast.pre[d].series[1].chips # None =>
                         \A k \in DOMAIN alast.pre[d].series[1].chips[1] :
                             alast.pre[d].series[1].chips[1][k].stamps =>
                                 aseries.assays[d].series[1].chips[1][k].stamps
            /\ \A i \in DOMAIN sub :
                 (/\ \A i2 \in DOMAIN sub : i2 > i => sub[i2] # sub[i]
                  /\ StepsOf(log, i) # <<>>) =>
                     LET chips == aseries.assays[sub[i]].series[1].chips[1] IN
                     \A k \in DOMAIN chips :
                         /\ chips[k].stamped
                         /\ chips[k].stamps = (StepsOf(log, i) # steps \/ ~alast.low_mem)

\* a process_kinetics call over two assays with low_mem that returned: all
\* four steps were done for both, and the stamps are released
C11_Witness ==
    /\ alast.op = "process_kinetics"
    /\ alast.outcome = "ok"
    /\ alast.low_mem
    /\ alast.subset = <<>>
    /\ Len(aseries.keys) = 2
    /\ Len(alast.log) = 8
    /\ \A d \in DOMAIN aseries.assays :
         \A k \in DOMAIN aseries.assays[d].series[1].chips[1] :
             ~aseries.assays[d].series[1].chips[1][k].stamps

\* load_files raises on the directory behind a path (line 97)
FailsToLoad(path) == \E f \in DirOf(path) : ~IsInt(f.last)

\* the call of alast raised before its loop began: the length tests of
\* load_kin and load_quants, and the repetition of a view of paths
RaisedBeforeLoop ==
    \/ alast.op = "load_kin" /\ Len(alast.descs) # Len(aseries.keys)
    \/ alast.op = "load_quants" /\ alast.outcome \in {"ValueError", "TypeError"}

\* the items of the call of alast: the pairs of a load, the keys of a process
BatchItems ==
    CASE alast.op = "load_kin" -> Zip(alast.descs, alast.paths, Len(aseries.keys))
      [] alast.op = "load_quants" -> LoadQuantsRefs(aseries, alast.descs, alast.paths)
      [] OTHER -> SubsetOf(aseries, alast.subset)

\* item j of the call of alast is one that fails by itself, whatever was done
\* before it
ItemFails(j) ==
    LET it == BatchItems[j] IN
    CASE alast.op = "load_kin" -> FailsToLoad(it.p) \/ it.desc \notin DOMAIN aseries.assays
      [] alast.op = "load_quants" -> it.desc \notin DOMAIN aseries.assays
      [] alast.op = "process_kinetics" ->
            \/ it \notin DOMAIN aseries.assays
            \/ aseries.assays[it].series = None
            \/ \E op \in {"save_summary", "save_summary_images"} : alast.fail = Write(op, j, 0)
      [] OTHER ->
            \/ it \notin DOMAIN aseries.assays
            \/ \E n \in DOMAIN aseries.assays[it].quants :
                  alast.fail = Write("save_summary_image", j, n)

\* the steps of item j of a process call when all of them are done
AllSteps(j) ==
    IF alast.op = "process_kinetics"
    THEN [k \in 1..Len(KineticsSteps(alast.low_mem)) |->
             Event(KineticsSteps(alast.low_mem)[k], j, BatchItems[j], 0)]
    ELSE [k \in 1..(2 * Len(aseries.assays[BatchItems[j]].quants)) |->
             Event(IF k % 2 = 1 THEN "process" ELSE "save_summary_image",
                   j, BatchItems[j], (k + 1) \div 2)]

\* the effects of the items before i were applied and are there after the call
EarlierKept(i) ==
    LET items == BatchItems
        pre == alast.pre
        now == aseries.assays
    IN
    CASE alast.op = "load_kin" ->
            \A d \in DOMAIN now :
                LET js == {j \in 1..(i - 1) : items[j].desc = d} IN
                js # {} =>
                    /\ now[d].series # None
                    /\ now[d].series[1].series_root = Some(items[Max(js)].p)
                    /\ now[d].series[1].chips # None
      [] alast.op = "load_quants" ->
            \A d \in DOMAIN now :
                LET added == SelectSeq(SubSeq(items, 1, i - 1), LAMBDA r : r.desc = d) IN
                /\ Len(now[d].quants) = Len(pre[d].quants) + Len(added)
                /\ \A k \in DOMAIN added :
                       now[d].quants[Len(pre[d].quants) + k] = QuantOf(added[k].p)
      [] alast.op = "process_kinetics" ->
            \A j \in 1..(i - 1) :
                /\ SelectSeq(alast.log, LAMBDA e : e.item = j) = AllSteps(j)
                /\ \A k \in DOMAIN now[items[j]].series[1].chips[1] :
                       /\ now[items[j]].series[1].chips[1][k].stamped
                       /\ now[items[j]].series[1].chips[1][k].chambers
      [] OTHER ->
            \A j \in 1..(i - 1) :
                /\ SelectSeq(alast.log, LAMBDA e : e.item = j) = AllSteps(j)
                /\ \A n \in DOMAIN now[items[j]].quants :
                       /\ now[items[j]].quants[n].processed
                       /\ now[items[j]].quants[n].chip[1].stamped
                       /\ now[items[j]].quants[n].chip[1].buttons

\* nothing was done for the items after i: no step of theirs is logged, and
\* an assay that only they name is as it was before the call
LaterUntouched(i) ==
    LET items == BatchItems
        named == {IF alast.op \in {"load_kin", "load_quants"}
                  THEN items[j].desc ELSE items[j] : j \in 1..i}
    IN  /\ \A k \in DOMAIN alast.log : alast.log[k].item <= i
        /\ \A d \in DOMAIN aseries.assays \ named : aseries.assays[d] = alast.pre[d]

\* C12: a failure of a step for one item of a batch operation (load_kin,
\* load_quants, process_kinetics, process_quants) ends the call there: the
\* call raises, the failing item is the first that fails, the items before
\* it have their effects applied and kept, and no item after it is loaded or
\* processed.  A call that raises before its loop changes nothing.
C12_BatchAbort ==
    alast.op \in {"load_kin", "load_quants", "process_kinetics", "process_quants"} =>
      IF RaisedBeforeLoop
      THEN alast.outcome # "ok" /\ aseries.assays = alast.pre
      ELSE LET failing == {j \in DOMAIN BatchItems : ItemFails(j)} IN
           IF failing = {}
           THEN alast.outcome = "ok"
           ELSE /\ alast.outcome # "ok"
                /\ EarlierKept(Min(failing))
                /\ LaterUntouched(Min(failing))
                /\ alast.op \in {"process_kinetics", "process_quants"} =>
                       /\ DOMAIN aseries.assays = DOMAIN alast.pre
                       /\ BatchItems[Min(failing)] \in DOMAIN aseries.assays =>
                              SelectSeq(alast.log, LAMBDA e : e.item = Min(failing))
                                  # AllSteps(Min(failing))

\* a process_kinetics call over two assays whose second item fails at a
\* write: it raised, and the first assay's series is processed
C12_Witness ==
    /\ alast.op = "process_kinetics"
    /\ alast.outcome = "OSError"
    /\ Len(BatchItems) = 2
    /\ BatchItems[1] # BatchItems[2]
    /\ ~ItemFails(1)
    /\ ItemFails(2)
    /\ \E k \in DOMAIN alast.log : alast.log[k].item = 2
    /\ \A k \in DOMAIN aseries.assays[BatchItems[1]].series[1].chips[1] :
           aseries.assays[BatchItems[1]].series[1].chips[1][k].chambers

\* C16: whenever load_kin returns without raising, every assay of the
\* collection has a series, whatever the length of paths and whether or not
\* descriptions repeats an entry; so a process_kinetics() over all the assays
\* that follows it never meets an assay whose series is None.
C16_AsStated ==
    [][/\ (alast'.op = "load_kin" /\ alast'.outcome = "ok") =>
              \A d \in DOMAIN aseries'.assays : aseries'.assays[d].series # None
       /\ (/\ alast.op = "load_kin" /\ alast.outcome = "ok"
           /\ alast'.op = "process_kinetics" /\ alast'.subset = <<>>) =>
              alast'.outcome # "AttributeError"]_vars

====
